---- MODULE Spec2Model ----
(***************************************************************************)
(* Flattened Devicetree writer of cros_fdt (src/cros_fdt/src/fdt.rs).      *)
(*                                                                         *)
(* Bytes are naturals 0..255, strings and byte vectors are sequences of    *)
(* bytes.  A u32 is a record [hi, lo] of two 16-bit halves, so that the    *)
(* header magic 0xd00dfeed and the `as u32` truncations keep their width.  *)
(* A usize is a record [q, r] standing for q * 2^30 + r.  A negative item   *)
(* -n of a byte vector stands for n consecutive zero bytes that are not     *)
(* written out, so that vectors of 2^32 bytes and more have their length.   *)
(* A BTreeMap is the sequence of its [key, val] entries in ascending key   *)
(* order, which is the order its iterator yields.                          *)
(***************************************************************************)
EXTENDS Integers, Sequences, FiniteSets, TLC

VARIABLES reserved_memory, root, strings, boot_cpuid_phys, call, blob, log, repeated,
          nops, nfinish, cpuid_log

\* call: the last call and its result; blob: what the last finish() returned;
\* log: the set_prop and subnode_mut calls that succeeded, in the order made;
\* repeated: the last call was a finish() made right after another finish();
\* cpuid_log: the values handed to set_boot_cpuid_phys, in the order of the calls.
vars == <<reserved_memory, root, strings, boot_cpuid_phys, call, blob, log, repeated,
          nops, nfinish, cpuid_log>>

(* ------------------------------ bounds -------------------------------- *)

\* Mutating API calls (set_prop, subnode_mut, set_boot_cpuid_phys) per run.
MaxOps == 3
\* finish() calls per run.
MaxFinish == 2
\* Depth below the root at which subnode_mut may still create a child.
MaxDepth == 1
\* Length of the reserved-memory list handed to Fdt::new (ResvSpec).
MaxResv == 2
\* Mutating API calls per run of ResvSpec.
MaxResvOps == 2

(* --------------------------- program constants ------------------------ *)

SIZE_U32 == 4
SIZE_U64 == 8
FDT_BEGIN_NODE == 1
FDT_END_NODE == 2
FDT_PROP == 3
FDT_END == 9
\* 2^16: a u32 is held as two halves below it.
HALF == 256 * 256

\* FdtHeader::MAGIC = 0xd00dfeed, VERSION = 17, LAST_COMP_VERSION = 16.
MAGIC == [hi |-> 53261, lo |-> 65261]
VERSION == [hi |-> 0, lo |-> 17]
LAST_COMP_VERSION == [hi |-> 0, lo |-> 16]
HEADER_SIZE == 10 * SIZE_U32

(* ------------------------------ integers ------------------------------ *)

\* 2^30: a usize is q * UNIT + r with r below it.
UNIT == HALF * (HALF \div 4)

\* The usize of a natural below 2^31.
Usize(n) == [q |-> n \div UNIT, r |-> n % UNIT]

\* a + b on usize.
UsizeAdd(a, b) == [q |-> a.q + b.q + ((a.r + b.r) \div UNIT), r |-> (a.r + b.r) % UNIT]

\* a % m on usize, for m below 2^15.
UsizeRem(a, m) == (((a.q % m) * (UNIT % m)) + (a.r % m)) % m

RECURSIVE SumRuns(_, _)
\* The bytes the items of x at the positions in `at` stand for, each a run.
SumRuns(x, at) ==
    IF at = {} THEN Usize(0)
    ELSE LET i == CHOOSE j \in at : TRUE
         IN  UsizeAdd(Usize(0 - x[i]), SumRuns(x, at \ {i}))

\* Vec::len / slice::len / str::len
VecLen(x) ==
    LET runs == {i \in 1..Len(x) : x[i] < 0}
    IN  IF runs = {} THEN Usize(Len(x))
        ELSE UsizeAdd(Usize(Len(x) - Cardinality(runs)), SumRuns(x, runs))

\* `n as u32` for a usize n: the low 32 bits.
AsU32(n) == [hi |-> ((n.q % 4) * (HALF \div 4)) + (n.r \div HALF), lo |-> n.r % HALF]

\* u32::try_from(n).is_ok() for a usize n.
TryFromU32Ok(n) == n.q < 4

\* a - b on u32, wrapping.
U32Sub(a, b) ==
    LET borrow == IF a.lo < b.lo THEN 1 ELSE 0
    IN  [hi |-> (a.hi - b.hi - borrow + HALF) % HALF, lo |-> (a.lo - b.lo + HALF) % HALF]

\* u32::to_be_bytes.
U32ToBeBytes(u) == <<u.hi \div 256, u.hi % 256, u.lo \div 256, u.lo % 256>>

RECURSIVE BeBytes(_, _)
\* The n low-order bytes of v, most significant first.
BeBytes(v, n) == IF n = 0 THEN <<>> ELSE Append(BeBytes(v \div 256, n - 1), v % 256)

\* u64::to_be_bytes.
U64ToBeBytes(v) == BeBytes(v, SIZE_U64)

\* n zero bytes.
Zeros(n) == [i \in 1..n |-> 0]

(* ------------------------------ alignment ----------------------------- *)

\* align_pad_len that never pads.
align_pad_len_unpadded(size, alignment) == 0

\* align_pad_len: the padding bytes that bring `size` to a multiple of `alignment`.
align_pad_len(size, alignment) == (alignment - UsizeRem(size, alignment)) % alignment

\* align_data
align_data(data, alignment) == data \o Zeros(align_pad_len(VecLen(data), alignment))

(* --------------------------- name validation -------------------------- *)

\* u8::is_ascii_alphanumeric
IsAsciiAlphanumeric(c) == c \in (48..57) \cup (65..90) \cup (97..122)

PROP_ALLOWED_SPECIAL_CHARS == {46, 44, 95, 43, 63, 35, 45}

NODE_ALLOWED_SPECIAL_CHARS == {46, 44, 95, 43, 45, 64}

ADDR_SEP == 64

is_valid_prop_name(name) ==
    \A i \in 1..Len(name) :
        IsAsciiAlphanumeric(name[i]) \/ name[i] \in PROP_ALLOWED_SPECIAL_CHARS

\* is_valid_node_name that does not count the address separators.
is_valid_node_name_any_separators(name) ==
    \A i \in 1..Len(name) :
        IsAsciiAlphanumeric(name[i]) \/ name[i] \in NODE_ALLOWED_SPECIAL_CHARS

is_valid_node_name(name) ==
    IF Cardinality({i \in 1..Len(name) : name[i] = ADDR_SEP}) > 1
    THEN FALSE
    ELSE \A i \in 1..Len(name) :
            IsAsciiAlphanumeric(name[i]) \/ name[i] \in NODE_ALLOWED_SPECIAL_CHARS

(* ------------------------------ BTreeMap ------------------------------ *)

\* Ord for String / CString: lexicographic on bytes.
StrLess(a, b) ==
    \/ /\ Len(a) < Len(b)
       /\ \A i \in 1..Len(a) : a[i] = b[i]
    \/ \E i \in 1..Len(a) :
          /\ i <= Len(b)
          /\ a[i] < b[i]
          /\ \A j \in 1..(i - 1) : a[j] = b[j]

\* BTreeMap::contains_key
contains_key(m, k) == \E i \in 1..Len(m) : m[i].key = k

\* BTreeMap::get / get_mut of a key that is present.
BTreeGet(m, k) == m[CHOOSE i \in 1..Len(m) : m[i].key = k].val

\* A map that keeps its entries in insertion order.
BTreeInsertUnsorted(m, k, v) ==
    IF contains_key(m, k)
    THEN [i \in 1..Len(m) |-> IF m[i].key = k THEN [key |-> k, val |-> v] ELSE m[i]]
    ELSE Append(m, [key |-> k, val |-> v])

\* BTreeMap::insert: replaces the value of an equal key, else inserts in key order.
BTreeInsert(m, k, v) ==
    IF contains_key(m, k)
    THEN [i \in 1..Len(m) |-> IF m[i].key = k THEN [key |-> k, val |-> v] ELSE m[i]]
    ELSE LET n == Cardinality({i \in 1..Len(m) : StrLess(m[i].key, k)})
         IN  SubSeq(m, 1, n) \o <<[key |-> k, val |-> v]>> \o SubSeq(m, n + 1, Len(m))

(* ----------------------------- FdtStrings ----------------------------- *)

\* FdtStrings::default()
FdtStringsDefault == [strings |-> <<>>, string_offsets |-> <<>>]

\* intern_string without the lookup of an existing instance.
intern_string_always_append(fs, s) ==
    [off |-> AsU32(VecLen(fs.strings)),
     fs  |-> [strings |-> fs.strings \o s \o <<0>>,
              string_offsets |-> BTreeInsert(fs.string_offsets, s, AsU32(VecLen(fs.strings)))]]

\* intern_string that appends the string without its terminator.
intern_string_no_nul(fs, s) ==
    IF contains_key(fs.string_offsets, s)
    THEN [off |-> BTreeGet(fs.string_offsets, s), fs |-> fs]
    ELSE [off |-> AsU32(VecLen(fs.strings)),
          fs  |-> [strings |-> fs.strings \o s,
                   string_offsets |-> BTreeInsert(fs.string_offsets, s, AsU32(VecLen(fs.strings)))]]

\* intern_string that takes the offset after the append.
intern_string_offset_after_append(fs, s) ==
    IF contains_key(fs.string_offsets, s)
    THEN [off |-> BTreeGet(fs.string_offsets, s), fs |-> fs]
    ELSE [off |-> AsU32(VecLen(fs.strings \o s \o <<0>>)),
          fs  |-> [strings |-> fs.strings \o s \o <<0>>,
                   string_offsets |-> BTreeInsert(fs.string_offsets, s,
                                                  AsU32(VecLen(fs.strings \o s \o <<0>>)))]]

\* FdtStrings::intern_string: the offset of s, appended with its NUL when new.
intern_string(fs, s) ==
    IF contains_key(fs.string_offsets, s)
    THEN [off |-> BTreeGet(fs.string_offsets, s), fs |-> fs]
    ELSE LET off == AsU32(VecLen(fs.strings))
         IN  [off |-> off,
              fs  |-> [strings |-> fs.strings \o s \o <<0>>,
                       string_offsets |-> BTreeInsert(fs.string_offsets, s, off)]]

(* --------------------------- property values -------------------------- *)

\* A byte vector of 2^32 zero bytes.
HugeVec == <<0 - UNIT, 0 - UNIT, 0 - UNIT, 0 - UNIT>>

\* u32::try_from(bytes.len()).is_ok()
PropLenFits(bytes) == TryFromU32Ok(VecLen(bytes))

\* ToFdtPropval::to_propval for (), u32, &str, an array of 2^30 u32 and an
\* array of zero words whose bytes are value.s.
to_propval(value) ==
    CASE value.kind = "unit"   -> [ok |-> TRUE, bytes |-> <<>>]
      [] value.kind = "u32"    -> [ok |-> TRUE, bytes |-> U32ToBeBytes(AsU32(Usize(value.n)))]
      [] value.kind = "zeros"  -> [ok |-> TRUE, bytes |-> value.s]
      [] value.kind = "str"    ->
           IF \E i \in 1..Len(value.s) : value.s[i] = 0
           THEN [ok |-> FALSE, bytes |-> <<>>]
           ELSE [ok |-> TRUE, bytes |-> value.s \o <<0>>]
      [] value.kind = "bigarr" -> [ok |-> TRUE, bytes |-> HugeVec]

(* ------------------------------- FdtNode ------------------------------ *)

\* FdtNode::new
FdtNode_new(name, props, subnodes) ==
    IF ~is_valid_node_name(name)
    THEN [ok |-> FALSE, node |-> <<>>]
    ELSE IF \E i \in 1..Len(props) : ~is_valid_prop_name(props[i].key)
    THEN [ok |-> FALSE, node |-> <<>>]
    ELSE [ok |-> TRUE, node |-> [name |-> name, props |-> props, subnodes |-> subnodes]]

\* FdtNode::empty
FdtNode_empty(name) == FdtNode_new(name, <<>>, <<>>)

\* set_prop that checks the name after the insert.
set_prop_name_checked_last(node, name, value) ==
    LET r == to_propval(value)
    IN  IF ~r.ok
        THEN [ret |-> "InvalidString", node |-> node]
        ELSE IF ~PropLenFits(r.bytes)
        THEN [ret |-> "PropertyValueTooLarge", node |-> node]
        ELSE LET stored == [node EXCEPT !.props = BTreeInsert(@, name, r.bytes)]
             IN  IF ~is_valid_prop_name(name)
                 THEN [ret |-> "InvalidName", node |-> stored]
                 ELSE [ret |-> "Ok", node |-> stored]

\* set_prop that keeps the value of a property that exists.
set_prop_keeps_first(node, name, value) ==
    IF ~is_valid_prop_name(name)
    THEN [ret |-> "InvalidName", node |-> node]
    ELSE LET r == to_propval(value)
         IN  IF ~r.ok
             THEN [ret |-> "InvalidString", node |-> node]
             ELSE IF ~PropLenFits(r.bytes)
             THEN [ret |-> "PropertyValueTooLarge", node |-> node]
             ELSE IF contains_key(node.props, name)
             THEN [ret |-> "Ok", node |-> node]
             ELSE [ret |-> "Ok",
                   node |-> [node EXCEPT !.props = BTreeInsert(@, name, r.bytes)]]

\* set_prop without the check of the value's length.
set_prop_any_length(node, name, value) ==
    IF ~is_valid_prop_name(name)
    THEN [ret |-> "InvalidName", node |-> node]
    ELSE LET r == to_propval(value)
         IN  IF ~r.ok
             THEN [ret |-> "InvalidString", node |-> node]
             ELSE [ret |-> "Ok",
                   node |-> [node EXCEPT !.props = BTreeInsert(@, name, r.bytes)]]

\* FdtNode::set_prop
set_prop(node, name, value) ==
    IF ~is_valid_prop_name(name)
    THEN [ret |-> "InvalidName", node |-> node]
    ELSE LET r == to_propval(value)
         IN  IF ~r.ok
             THEN [ret |-> "InvalidString", node |-> node]
             ELSE IF ~PropLenFits(r.bytes)
             THEN [ret |-> "PropertyValueTooLarge", node |-> node]
             ELSE [ret |-> "Ok",
                   node |-> [node EXCEPT !.props = BTreeInsert(@, name, r.bytes)]]

\* subnode_mut without the check for an existing child.
subnode_mut_always_insert(node, name) ==
    LET e == FdtNode_empty(name)
    IN  IF ~e.ok
        THEN [ret |-> "InvalidName", node |-> node]
        ELSE [ret |-> "Ok",
              node |-> [node EXCEPT !.subnodes = BTreeInsert(@, name, e.node)]]

\* FdtNode::subnode_mut (the handle it returns is the child under `name`).
subnode_mut(node, name) ==
    IF ~contains_key(node.subnodes, name)
    THEN LET e == FdtNode_empty(name)
         IN  IF ~e.ok
             THEN [ret |-> "InvalidName", node |-> node]
             ELSE [ret |-> "Ok",
                   node |-> [node EXCEPT !.subnodes = BTreeInsert(@, name, e.node)]]
    ELSE [ret |-> "Ok", node |-> node]

RECURSIVE WriteProps(_, _, _)
\* The property loop of FdtNode::write_blob from entry i on; st = [out, fs].
WriteProps(props, i, st) ==
    IF i > Len(props) THEN st
    ELSE LET propname == props[i].key
             propblob == props[i].val
             r == intern_string(st.fs, propname)
             rec == U32ToBeBytes([hi |-> 0, lo |-> FDT_PROP])
                    \o U32ToBeBytes(AsU32(VecLen(propblob)))
                    \o U32ToBeBytes(r.off)
                    \o propblob
                    \o Zeros(align_pad_len(VecLen(propblob), SIZE_U32))
         IN  WriteProps(props, i + 1, [out |-> st.out \o rec, fs |-> r.fs])

RECURSIVE node_write_blob(_, _)
RECURSIVE WriteSubnodes(_, _, _)
\* The subnode loop of FdtNode::write_blob from entry i on.
WriteSubnodes(subnodes, i, st) ==
    IF i > Len(subnodes) THEN st
    ELSE WriteSubnodes(subnodes, i + 1, node_write_blob(subnodes[i].val, st))

\* FdtNode::write_blob that writes the subnodes before the properties.
node_write_blob_subnodes_first(node, st) ==
    LET head == U32ToBeBytes([hi |-> 0, lo |-> FDT_BEGIN_NODE])
                \o node.name \o <<0>>
                \o Zeros(align_pad_len(UsizeAdd(VecLen(node.name), Usize(1)), SIZE_U32))
        s1 == WriteSubnodes(node.subnodes, 1, [out |-> st.out \o head, fs |-> st.fs])
        s2 == WriteProps(node.props, 1, s1)
    IN  [out |-> s2.out \o U32ToBeBytes([hi |-> 0, lo |-> FDT_END_NODE]), fs |-> s2.fs]

\* FdtNode::write_blob
node_write_blob(node, st) ==
    LET head == U32ToBeBytes([hi |-> 0, lo |-> FDT_BEGIN_NODE])
                \o node.name \o <<0>>
                \o Zeros(align_pad_len(UsizeAdd(VecLen(node.name), Usize(1)), SIZE_U32))
        s1 == WriteProps(node.props, 1, [out |-> st.out \o head, fs |-> st.fs])
        s2 == WriteSubnodes(node.subnodes, 1, s1)
    IN  [out |-> s2.out \o U32ToBeBytes([hi |-> 0, lo |-> FDT_END_NODE]), fs |-> s2.fs]

(* ------------------------- handles into the tree ---------------------- *)

RECURSIVE GetNode(_, _)
\* The node a handle obtained by root_mut() and subnode_mut() along `path` points to.
GetNode(node, path) ==
    IF path = <<>> THEN node
    ELSE GetNode(BTreeGet(node.subnodes, Head(path)), Tail(path))

RECURSIVE PutNode(_, _, _)
\* The tree after a write through the handle along `path`.
PutNode(node, path, new) ==
    IF path = <<>> THEN new
    ELSE [node EXCEPT !.subnodes =
            [i \in 1..Len(@) |->
                IF @[i].key = Head(path)
                THEN [key |-> @[i].key, val |-> PutNode(@[i].val, Tail(path), new)]
                ELSE @[i]]]

RECURSIVE NodePaths(_)
\* The handles that exist: the root and every descendant.
NodePaths(node) ==
    {<<>>} \cup UNION {{<<node.subnodes[i].key>> \o p : p \in NodePaths(node.subnodes[i].val)}
                        : i \in 1..Len(node.subnodes)}

(* --------------------------------- Fdt -------------------------------- *)

\* FdtReserveEntry::write_blob with the two fields in the other order.
reserve_entry_write_blob_size_first(entry) ==
    U64ToBeBytes(entry.size) \o U64ToBeBytes(entry.address)

\* FdtReserveEntry::write_blob
reserve_entry_write_blob(entry) == U64ToBeBytes(entry.address) \o U64ToBeBytes(entry.size)

\* Last entry in the reserved memory section.
RESVMEM_TERMINATOR == [address |-> 0, size |-> 0]

RECURSIVE WriteEntries(_, _)
\* The loop of Fdt::write_reserved_memory from entry i on.
WriteEntries(entries, i) ==
    IF i > Len(entries) THEN <<>>
    ELSE reserve_entry_write_blob(entries[i]) \o WriteEntries(entries, i + 1)

\* Fdt::write_reserved_memory
write_reserved_memory(entries) ==
    WriteEntries(entries, 1) \o reserve_entry_write_blob(RESVMEM_TERMINATOR)

\* Fdt::write_struct: [out, fs] after the root and FDT_END are appended to `out`.
write_struct(node, fs, out) ==
    LET s == node_write_blob(node, [out |-> out, fs |-> fs])
    IN  [out |-> s.out \o U32ToBeBytes([hi |-> 0, lo |-> FDT_END]), fs |-> s.fs]

\* FdtHeader::new that leaves boot_cpuid_phys at zero.
FdtHeader_new_zero_cpuid(total_size, off_dt_struct, off_dt_strings, off_mem_rsvmap, cpuid, size_dt_strings, size_dt_struct) ==
    [magic |-> MAGIC, total_size |-> total_size, off_dt_struct |-> off_dt_struct,
     off_dt_strings |-> off_dt_strings, off_mem_rsvmap |-> off_mem_rsvmap,
     version |-> VERSION, last_comp_version |-> LAST_COMP_VERSION,
     boot_cpuid_phys |-> [hi |-> 0, lo |-> 0], size_dt_strings |-> size_dt_strings,
     size_dt_struct |-> size_dt_struct]

\* FdtHeader::new
FdtHeader_new(total_size, off_dt_struct, off_dt_strings, off_mem_rsvmap, cpuid, size_dt_strings, size_dt_struct) ==
    [magic |-> MAGIC, total_size |-> total_size, off_dt_struct |-> off_dt_struct,
     off_dt_strings |-> off_dt_strings, off_mem_rsvmap |-> off_mem_rsvmap,
     version |-> VERSION, last_comp_version |-> LAST_COMP_VERSION,
     boot_cpuid_phys |-> cpuid, size_dt_strings |-> size_dt_strings,
     size_dt_struct |-> size_dt_struct]

\* FdtHeader::write_blob with the two size fields in the other order.
header_write_blob_sizes_swapped(h) ==
    U32ToBeBytes(h.magic) \o U32ToBeBytes(h.total_size) \o U32ToBeBytes(h.off_dt_struct)
    \o U32ToBeBytes(h.off_dt_strings) \o U32ToBeBytes(h.off_mem_rsvmap)
    \o U32ToBeBytes(h.version) \o U32ToBeBytes(h.last_comp_version)
    \o U32ToBeBytes(h.boot_cpuid_phys) \o U32ToBeBytes(h.size_dt_struct)
    \o U32ToBeBytes(h.size_dt_strings)

\* FdtHeader::write_blob: the ten fields, each big-endian, in this order.
header_write_blob(h) ==
    U32ToBeBytes(h.magic) \o U32ToBeBytes(h.total_size) \o U32ToBeBytes(h.off_dt_struct)
    \o U32ToBeBytes(h.off_dt_strings) \o U32ToBeBytes(h.off_mem_rsvmap)
    \o U32ToBeBytes(h.version) \o U32ToBeBytes(h.last_comp_version)
    \o U32ToBeBytes(h.boot_cpuid_phys) \o U32ToBeBytes(h.size_dt_strings)
    \o U32ToBeBytes(h.size_dt_struct)

\* Fdt::finish that checks the size before the strings block is appended.
finish_size_checked_early(fdt) ==
    LET with_r3(off_mem_rsvmap, off_dt_struct, off_dt_strings, fs, r3) ==
            IF ~TryFromU32Ok(off_dt_strings)
            THEN [ret |-> "TotalSizeTooLarge", blob |-> <<>>, strings |-> fs]
            ELSE [ret |-> "Ok",
                  blob |-> header_write_blob(
                               FdtHeader_new(
                                  AsU32(VecLen(r3)), AsU32(off_dt_struct),
                                  AsU32(off_dt_strings), AsU32(off_mem_rsvmap),
                                  fdt.boot_cpuid_phys,
                                  U32Sub(AsU32(VecLen(r3)), AsU32(off_dt_strings)),
                                  U32Sub(AsU32(off_dt_strings), AsU32(off_dt_struct))))
                           \o SubSeq(r3, HEADER_SIZE + 1, Len(r3)),
                  strings |-> fs]
        with_r2(off_mem_rsvmap, off_dt_struct, fs, r2) ==
            with_r3(off_mem_rsvmap, off_dt_struct, VecLen(r2), fs, r2 \o fs.strings)
        with_ws(off_mem_rsvmap, off_dt_struct, ws) ==
            with_r2(off_mem_rsvmap, off_dt_struct, ws.fs, align_data(ws.out, SIZE_U32))
        with_r1(off_mem_rsvmap, r1) ==
            with_ws(off_mem_rsvmap, VecLen(r1), write_struct(fdt.root, fdt.strings, r1))
        with_r0(r0) ==
            with_r1(VecLen(r0),
                    align_data(r0 \o write_reserved_memory(fdt.reserved_memory), SIZE_U64))
    IN  with_r0(align_data(Zeros(HEADER_SIZE), SIZE_U64))

\* Fdt::finish on [reserved_memory, root, strings, boot_cpuid_phys]:
\* [ret, blob, strings], strings being self.strings after the call.  r0..r3 are
\* the vector `fdt` after the header placeholder, the reserved-memory block,
\* the structure block and the strings block; ws = [out, fs] is write_struct's.
finish(fdt) ==
    LET with_r3(off_mem_rsvmap, off_dt_struct, off_dt_strings, fs, r3) ==
            IF ~TryFromU32Ok(VecLen(r3))
            THEN [ret |-> "TotalSizeTooLarge", blob |-> <<>>, strings |-> fs]
            ELSE [ret |-> "Ok",
                  blob |-> header_write_blob(
                               FdtHeader_new(
                                  AsU32(VecLen(r3)), AsU32(off_dt_struct),
                                  AsU32(off_dt_strings), AsU32(off_mem_rsvmap),
                                  fdt.boot_cpuid_phys,
                                  U32Sub(AsU32(VecLen(r3)), AsU32(off_dt_strings)),
                                  U32Sub(AsU32(off_dt_strings), AsU32(off_dt_struct))))
                           \o SubSeq(r3, HEADER_SIZE + 1, Len(r3)),
                  strings |-> fs]
        with_r2(off_mem_rsvmap, off_dt_struct, fs, r2) ==
            with_r3(off_mem_rsvmap, off_dt_struct, VecLen(r2), fs, r2 \o fs.strings)
        with_ws(off_mem_rsvmap, off_dt_struct, ws) ==
            with_r2(off_mem_rsvmap, off_dt_struct, ws.fs, align_data(ws.out, SIZE_U32))
        with_r1(off_mem_rsvmap, r1) ==
            with_ws(off_mem_rsvmap, VecLen(r1), write_struct(fdt.root, fdt.strings, r1))
        with_r0(r0) ==
            with_r1(VecLen(r0),
                    align_data(r0 \o write_reserved_memory(fdt.reserved_memory), SIZE_U64))
    IN  with_r0(align_data(Zeros(HEADER_SIZE), SIZE_U64))

\* Fdt::new
Fdt_new(mem_reservations) ==
    [reserved_memory |-> mem_reservations,
     root            |-> FdtNode_empty(<<>>).node,
     strings         |-> FdtStringsDefault,
     boot_cpuid_phys |-> [hi |-> 0, lo |-> 0]]

(* ------------------------------- inputs ------------------------------- *)

\* "a", "b", and "a\0b".
PropNames == {<<97>>, <<98>>, <<97, 0, 98>>}

\* "n", "m", and "n\0".
NodeNames == {<<110>>, <<109>>, <<110, 0>>}

\* 0x01020304u32, "h", "h\0i" and an array whose encoding has 2^32 bytes.
Values ==
    {[kind |-> "u32", n |-> 16909060, s |-> <<>>],
     [kind |-> "str", n |-> 0, s |-> <<104>>],
     [kind |-> "str", n |-> 0, s |-> <<104, 0, 105>>],
     [kind |-> "bigarr", n |-> 0, s |-> <<>>]}

ReserveEntries == {[address |-> 258, size |-> 3], [address |-> 4, size |-> 1286]}

CpuIds == {[hi |-> 0, lo |-> 1], [hi |-> 1, lo |-> 2]}

RECURSIVE SeqsUpTo(_, _)
\* The sequences over S of length at most n.
SeqsUpTo(S, n) ==
    IF n = 0 THEN {<<>>}
    ELSE SeqsUpTo(S, n - 1) \cup {Append(q, x) : q \in SeqsUpTo(S, n - 1), x \in S}

\* The record of a call, before any call is made.
NoCall == [op |-> "new", ret |-> "Ok", path |-> <<>>, name |-> <<>>,
           value |-> [kind |-> "unit", n |-> 0, s |-> <<>>]]

(* ------------------------------- actions ------------------------------ *)

\* The state after Fdt::new(mem_reservations).
Constructed(mem_reservations) ==
    LET f == Fdt_new(mem_reservations)
    IN  /\ reserved_memory = f.reserved_memory
        /\ root = f.root
        /\ strings = f.strings
        /\ boot_cpuid_phys = f.boot_cpuid_phys
        /\ call = NoCall
        /\ blob = <<>>
        /\ log = <<>>
        /\ repeated = FALSE
        /\ nops = 0
        /\ nfinish = 0
        /\ cpuid_log = <<>>

\* handle.set_prop(name, value), handle being the node along `path`.
SetProp(max) ==
    /\ nops < max
    /\ \E path \in NodePaths(root), name \in PropNames, value \in Values :
          LET r == set_prop(GetNode(root, path), name, value)
              c == [op |-> "set_prop", ret |-> r.ret, path |-> path, name |-> name,
                    value |-> value]
          IN  /\ root' = PutNode(root, path, r.node)
              /\ call' = c
              /\ log' = IF r.ret = "Ok" THEN Append(log, c) ELSE log
    /\ nops' = nops + 1
    /\ repeated' = FALSE
    /\ UNCHANGED <<reserved_memory, strings, boot_cpuid_phys, blob, nfinish, cpuid_log>>

\* handle.subnode_mut(name), handle being the node along `path`.
SubnodeMut(max) ==
    /\ nops < max
    /\ \E path \in NodePaths(root), name \in NodeNames :
          /\ Len(path) < MaxDepth
          /\ LET r == subnode_mut(GetNode(root, path), name)
                 c == [op |-> "subnode_mut", ret |-> r.ret, path |-> path, name |-> name,
                       value |-> NoCall.value]
             IN  /\ root' = PutNode(root, path, r.node)
                 /\ call' = c
                 /\ log' = IF r.ret = "Ok" THEN Append(log, c) ELSE log
    /\ nops' = nops + 1
    /\ repeated' = FALSE
    /\ UNCHANGED <<reserved_memory, strings, boot_cpuid_phys, blob, nfinish, cpuid_log>>

\* Fdt::set_boot_cpuid_phys
SetBootCpuidPhys(max) ==
    /\ nops < max
    /\ \E id \in CpuIds :
          /\ boot_cpuid_phys' = id
          /\ cpuid_log' = Append(cpuid_log, id)
    /\ call' = [NoCall EXCEPT !.op = "set_boot_cpuid_phys"]
    /\ nops' = nops + 1
    /\ repeated' = FALSE
    /\ UNCHANGED <<reserved_memory, root, strings, blob, log, nfinish>>

\* The Fdt as finish() finds it.
ThisFdt ==
    [reserved_memory |-> reserved_memory, root |-> root,
     strings |-> strings, boot_cpuid_phys |-> boot_cpuid_phys]

\* Fdt::finish that gives up the tree when it fails.
FinishLosingTree ==
    /\ nfinish < MaxFinish
    /\ \E r \in {finish(ThisFdt)} :
           /\ strings' = r.strings
           /\ blob' = r.blob
           /\ call' = [NoCall EXCEPT !.op = "finish", !.ret = r.ret]
           /\ root' = IF r.ret = "Ok" THEN root ELSE FdtNode_empty(<<>>).node
    /\ nfinish' = nfinish + 1
    /\ repeated' = (call.op = "finish")
    /\ UNCHANGED <<reserved_memory, boot_cpuid_phys, log, nops, cpuid_log>>

\* Fdt::finish
Finish ==
    /\ nfinish < MaxFinish
    /\ \E r \in {finish(ThisFdt)} :
           /\ strings' = r.strings
           /\ blob' = r.blob
           /\ call' = [NoCall EXCEPT !.op = "finish", !.ret = r.ret]
    /\ nfinish' = nfinish + 1
    /\ repeated' = (call.op = "finish")
    /\ UNCHANGED <<reserved_memory, root, boot_cpuid_phys, log, nops, cpuid_log>>

\* Fdt::new(&[]) and any calls on it.
Init == Constructed(<<>>)

Next == SetProp(MaxOps) \/ SubnodeMut(MaxOps) \/ SetBootCpuidPhys(MaxOps) \/ Finish

Spec == Init /\ [][Next]_vars

\* Fdt::new with a reserved-memory list and any calls on it.
ResvInit == \E m \in SeqsUpTo(ReserveEntries, MaxResv) : Constructed(m)

ResvNext ==
    SetProp(MaxResvOps) \/ SubnodeMut(MaxResvOps) \/ SetBootCpuidPhys(MaxResvOps) \/ Finish

ResvSpec == ResvInit /\ [][ResvNext]_vars

(* ------------------- one call with an arbitrary name ------------------- *)

MaxNameLen == 2

\* NUL, ' ', '!', '#', '+', ',', '-', '.', '/', '0', '9', ':', '?', '@', 'A',
\* 'Z', '[', '_', '`', 'a', 'z', '{' and the two bytes of U+00E9.
NameChars ==
    {0, 32, 33, 35, 43, 44, 45, 46, 47, 48, 57, 58, 63, 64, 65, 90, 91, 95, 96,
     97, 122, 123, 195, 169}

\* A &str over NameChars: the bytes 195 and 169 come as the pair 195, 169.
IsStr(name) ==
    \A i \in 1..Len(name) :
        /\ name[i] = 195 => (i < Len(name) /\ name[i + 1] = 169)
        /\ name[i] = 169 => (i > 1 /\ name[i - 1] = 195)

AnyNames == {name \in SeqsUpTo(NameChars, MaxNameLen) : IsStr(name)}

\* root.set_prop(name, value) as the first call on a new Fdt.
NameSetProp ==
    /\ call.op = "new"
    /\ \E name \in AnyNames, value \in Values :
          LET r == set_prop(root, name, value)
              c == [op |-> "set_prop", ret |-> r.ret, path |-> <<>>, name |-> name,
                    value |-> value]
          IN  /\ root' = r.node
              /\ call' = c
              /\ log' = IF r.ret = "Ok" THEN Append(log, c) ELSE log
    /\ nops' = nops + 1
    /\ repeated' = FALSE
    /\ UNCHANGED <<reserved_memory, strings, boot_cpuid_phys, blob, nfinish, cpuid_log>>

\* root.subnode_mut(name) as the first call on a new Fdt.
NameSubnodeMut ==
    /\ call.op = "new"
    /\ \E name \in AnyNames :
          LET r == subnode_mut(root, name)
              c == [op |-> "subnode_mut", ret |-> r.ret, path |-> <<>>, name |-> name,
                    value |-> NoCall.value]
          IN  /\ root' = r.node
              /\ call' = c
              /\ log' = IF r.ret = "Ok" THEN Append(log, c) ELSE log
    /\ nops' = nops + 1
    /\ repeated' = FALSE
    /\ UNCHANGED <<reserved_memory, strings, boot_cpuid_phys, blob, nfinish, cpuid_log>>

NameNext == NameSetProp \/ NameSubnodeMut

NameSpec == Init /\ [][NameNext]_vars

(* ----------------------- values of 2^31 bytes and more ------------------ *)

MaxSizeOps == 2

\* "a", "abc" and "@".
SizeNames == {<<97>>, <<97, 98, 99>>, <<64>>}

\* 0x01020304u32 and arrays of zero words of 2^31, 2^32 - 88, 2^32 - 4 and
\* 2^32 bytes.
SizeValues ==
    {[kind |-> "u32", n |-> 16909060, s |-> <<>>],
     [kind |-> "zeros", n |-> 0, s |-> <<0 - UNIT, 0 - UNIT>>],
     [kind |-> "zeros", n |-> 0, s |-> <<0 - UNIT, 0 - UNIT, 0 - UNIT, 88 - UNIT>>],
     [kind |-> "zeros", n |-> 0, s |-> <<0 - UNIT, 0 - UNIT, 0 - UNIT, 4 - UNIT>>],
     [kind |-> "bigarr", n |-> 0, s |-> <<>>]}

\* No reserved memory, or one entry.
SizeReservations == {<<>>, <<[address |-> 258, size |-> 3]>>}

\* handle.set_prop(name, value) with a value that may be long.
SizeSetProp ==
    /\ nops < MaxSizeOps
    /\ \E path \in NodePaths(root), name \in SizeNames, value \in SizeValues :
          LET r == set_prop(GetNode(root, path), name, value)
              c == [op |-> "set_prop", ret |-> r.ret, path |-> path, name |-> name,
                    value |-> value]
          IN  /\ root' = PutNode(root, path, r.node)
              /\ call' = c
              /\ log' = IF r.ret = "Ok" THEN Append(log, c) ELSE log
    /\ nops' = nops + 1
    /\ repeated' = FALSE
    /\ UNCHANGED <<reserved_memory, strings, boot_cpuid_phys, blob, nfinish, cpuid_log>>

SizeInit == \E m \in SizeReservations : Constructed(m)

SizeNext ==
    SizeSetProp \/ SubnodeMut(MaxSizeOps) \/ SetBootCpuidPhys(MaxSizeOps) \/ Finish

SizeSpec == SizeInit /\ [][SizeNext]_vars

(* ----------------------- reading a finished blob ---------------------- *)

\* The big-endian number in the n bytes of b after byte offset off.
RECURSIVE BeAt(_, _, _)
BeAt(b, off, n) == IF n = 0 THEN 0 ELSE BeAt(b, off, n - 1) * 256 + b[off + n]

HdrTotalSize(b) == BeAt(b, 4, 4)
HdrOffDtStruct(b) == BeAt(b, 8, 4)
HdrOffDtStrings(b) == BeAt(b, 12, 4)
HdrOffMemRsvmap(b) == BeAt(b, 16, 4)
HdrSizeDtStrings(b) == BeAt(b, 32, 4)
HdrSizeDtStruct(b) == BeAt(b, 36, 4)

\* The bytes of b from the strings block offset of its header to its end.
StringsBlock(b) == SubSeq(b, HdrOffDtStrings(b) + 1, Len(b))

\* The NUL-terminated strings a block is made of, in order.
RECURSIVE SplitNul(_, _, _)
SplitNul(sb, i, cur) ==
    IF i > Len(sb) THEN <<>>
    ELSE IF sb[i] = 0 THEN <<cur>> \o SplitNul(sb, i + 1, <<>>)
    ELSE SplitNul(sb, i + 1, Append(cur, sb[i]))

\* The length of the NUL-terminated string at byte offset off of b.
RECURSIVE CStrLen(_, _)
CStrLen(b, off) == IF off >= Len(b) \/ b[off + 1] = 0 THEN 0 ELSE 1 + CStrLen(b, off + 1)

Align4(n) == ((n + 3) \div 4) * 4

\* The tokens of the structure block of b from byte offset pos on, up to FDT_END.
RECURSIVE ScanStruct(_, _)
ScanStruct(b, pos) ==
    IF pos + 4 > Len(b) THEN <<[tok |-> "truncated"]>>
    ELSE LET t == BeAt(b, pos, 4)
         IN  CASE t = 1 ->
                    LET n == CStrLen(b, pos + 4)
                    IN  <<[tok |-> "begin", name |-> SubSeq(b, pos + 5, pos + 4 + n)]>>
                        \o ScanStruct(b, pos + 4 + Align4(n + 1))
               [] t = 3 ->
                    LET n == BeAt(b, pos + 4, 4)
                    IN  <<[tok |-> "prop", len |-> n, nameoff |-> BeAt(b, pos + 8, 4),
                           val |-> SubSeq(b, pos + 13, pos + 12 + n)]>>
                        \o ScanStruct(b, pos + 12 + Align4(n))
               [] t = 2 -> <<[tok |-> "end"]>> \o ScanStruct(b, pos + 4)
               [] t = 9 -> <<[tok |-> "fdt_end"]>>
               [] OTHER -> <<[tok |-> "bad"]>>

\* The property records of the structure block of b, in order.
PropRecords(b) == SelectSeq(ScanStruct(b, HdrOffDtStruct(b)), LAMBDA e : e.tok = "prop")

Keys(m) == {m[i].key : i \in 1..Len(m)}

\* The keys of S in ascending order.
RECURSIVE AscendingKeys(_)
AscendingKeys(S) ==
    IF S = {} THEN <<>>
    ELSE LET least == CHOOSE x \in S : \A y \in S \ {x} : StrLess(x, y)
         IN  <<least>> \o AscendingKeys(S \ {least})

\* The property names of a tree: a node's own in map order, then its children's.
RECURSIVE PreorderKeys(_)
RECURSIVE PreorderKeysOfSubnodes(_, _)
PreorderKeysOfSubnodes(subnodes, i) ==
    IF i > Len(subnodes) THEN <<>>
    ELSE PreorderKeys(subnodes[i].val) \o PreorderKeysOfSubnodes(subnodes, i + 1)

PreorderKeys(node) ==
    [i \in 1..Len(node.props) |-> node.props[i].key]
    \o PreorderKeysOfSubnodes(node.subnodes, 1)

FinishedOk == call.op = "finish" /\ call.ret = "Ok"

(* -------------------------------- claims ------------------------------ *)

\* C1: in the blob of every successful finish(), for any tree and any
\* reserved-memory list, the header's total_size is the length of the blob,
\* size_dt_strings + off_dt_strings = total_size, and
\* off_dt_strings - off_dt_struct = size_dt_struct.
C1_HeaderSizes ==
    FinishedOk =>
        /\ HdrTotalSize(blob) = Len(blob)
        /\ HdrSizeDtStrings(blob) + HdrOffDtStrings(blob) = HdrTotalSize(blob)
        /\ HdrOffDtStrings(blob) - HdrOffDtStruct(blob) = HdrSizeDtStruct(blob)

\* C1 witness: a finished blob with reserved entries, a strings block and a
\* structure block of another size than the strings block.
C1_Witness ==
    /\ FinishedOk
    /\ Len(reserved_memory) > 0
    /\ HdrSizeDtStrings(blob) > 0
    /\ HdrSizeDtStrings(blob) # HdrSizeDtStruct(blob)

\* C2: a finish() made right after a successful finish() on the same Fdt, with
\* no other call in between, succeeds and returns the same bytes.
C2_FinishTwiceSame ==
    [][(call.op = "finish" /\ call.ret = "Ok" /\ call'.op = "finish")
        => (call'.ret = "Ok" /\ blob' = blob)]_vars

\* C2 witness: a second finish() in a row on a tree with properties on the
\* root and on a child.
C2_Witness ==
    /\ FinishedOk
    /\ repeated
    /\ Len(root.props) > 0
    /\ \E i \in 1..Len(root.subnodes) : Len(root.subnodes[i].val.props) > 0

\* What finish() returns on a freshly constructed Fdt holding the same tree,
\* reserved-memory list and boot CPU id.
FreshFinish == finish([ThisFdt EXCEPT !.strings = FdtStringsDefault])

\* C3: the strings block of every finish() output is the one a freshly
\* constructed Fdt holding the same tree produces, whatever finish() and
\* set_prop/subnode_mut calls came before.
C3_FreshStringTable ==
    FinishedOk => StringsBlock(blob) = StringsBlock(FreshFinish.blob)

\* C5: in a finished blob, each property name of the tree is in the strings
\* block exactly once, the records are those of the tree's properties, and
\* records of properties with the same name carry the same name offset.
C5_StringReuse ==
    FinishedOk =>
        LET names == SplitNul(StringsBlock(blob), 1, <<>>)
            keys  == PreorderKeys(root)
            recs  == PropRecords(blob)
        IN  /\ \A k \in {keys[i] : i \in 1..Len(keys)} :
                  Cardinality({i \in 1..Len(names) : names[i] = k}) = 1
            /\ Len(recs) = Len(keys)
            /\ \A i, j \in 1..Len(keys) :
                  keys[i] = keys[j] => recs[i].nameoff = recs[j].nameoff

\* C5 witness: a finished tree with one property name on two nodes.
C5_Witness ==
    /\ FinishedOk
    /\ LET keys == PreorderKeys(root)
       IN  \E i, j \in 1..Len(keys) : i # j /\ keys[i] = keys[j]

\* C7: in every finished blob the mem-reservation offset and the structure
\* offset are multiples of 8 and the strings offset is a multiple of 4.
C7_Alignment ==
    FinishedOk =>
        /\ HdrOffMemRsvmap(blob) % 8 = 0
        /\ HdrOffDtStruct(blob) % 8 = 0
        /\ HdrOffDtStrings(blob) % 4 = 0

\* C7 witness: a finished blob with reserved entries whose tree has a child
\* (a name to pad) and a property value whose length is no multiple of 4.
C7_Witness ==
    /\ FinishedOk
    /\ Len(reserved_memory) > 0
    /\ Len(root.subnodes) > 0
    /\ \E i \in 1..Len(root.props) : Len(root.props[i].val) % 4 # 0

\* C10: the mem-reservation block of a finished blob starts at 0x28 and holds
\* the N entries of the list in the caller's order, address then size as
\* 64-bit big-endian numbers, then one all-zero entry; the structure block
\* starts at 0x28 + 16 * (N + 1).
C10_ReservedMemory ==
    FinishedOk =>
        LET n == Len(reserved_memory)
        IN  /\ HdrOffMemRsvmap(blob) = 40
            /\ \A i \in 1..n :
                  /\ BeAt(blob, 40 + 16 * (i - 1), 8) = reserved_memory[i].address
                  /\ BeAt(blob, 48 + 16 * (i - 1), 8) = reserved_memory[i].size
            /\ \A j \in 1..16 : blob[40 + 16 * n + j] = 0
            /\ HdrOffDtStruct(blob) = 40 + 16 * (n + 1)

\* C10 witness: a finished blob for a list of two entries that is not in
\* address order.
C10_Witness ==
    /\ FinishedOk
    /\ Len(reserved_memory) = 2
    /\ reserved_memory[1].address > reserved_memory[2].address

\* C10: a blob is finished for a list that holds the same entry twice.
C10_DuplicateKept ==
    /\ FinishedOk
    /\ Len(reserved_memory) = 2
    /\ reserved_memory[1] = reserved_memory[2]

\* The tree a fresh Fdt holds after the calls seq[i], seq[i+1], ... are made on
\* `node` through handles; ok is whether each of them could be made and succeeded.
RECURSIVE Replay(_, _, _)
Replay(seq, i, node) ==
    IF i > Len(seq) THEN [ok |-> TRUE, root |-> node]
    ELSE IF seq[i].path \notin NodePaths(node) THEN [ok |-> FALSE, root |-> node]
    ELSE LET c == seq[i]
             r == IF c.op = "set_prop"
                  THEN set_prop(GetNode(node, c.path), c.name, c.value)
                  ELSE subnode_mut(GetNode(node, c.path), c.name)
         IN  IF r.ret # "Ok" THEN [ok |-> FALSE, root |-> node]
             ELSE Replay(seq, i + 1, PutNode(node, c.path, r.node))

\* No two set_prop calls of the log name the same property of the same node.
DistinctKeys ==
    \A i, j \in 1..Len(log) :
        (i # j /\ log[i].op = "set_prop" /\ log[j].op = "set_prop")
            => <<log[i].path, log[i].name>> # <<log[j].path, log[j].name>>

\* C4: the blob of the first finish() of a run whose set_prop calls name
\* distinct keys per node is the blob that every other run returns which makes
\* the same calls on a fresh Fdt in another order and then calls finish().
C4_OrderIndependent ==
    (FinishedOk /\ nfinish = 1 /\ DistinctKeys) =>
        \A p \in Permutations(1..Len(log)) :
            LET other == Replay([i \in 1..Len(log) |-> log[p[i]]], 1, Fdt_new(<<>>).root)
            IN  other.ok =>
                    finish([ThisFdt EXCEPT !.root = other.root,
                                           !.strings = FdtStringsDefault]).blob = blob

\* C4 witness: a first finish() after two properties were set on one node in
\* descending name order.
C4_Witness ==
    /\ FinishedOk
    /\ nfinish = 1
    /\ DistinctKeys
    /\ \E i, j \in 1..Len(log) :
          /\ i < j
          /\ log[i].op = "set_prop"
          /\ log[j].op = "set_prop"
          /\ log[i].path = log[j].path
          /\ StrLess(log[j].name, log[i].name)

\* C4: a first finish() is reached after two children were created under one
\* node in descending name order.
C4_ChildrenDescending ==
    /\ FinishedOk
    /\ nfinish = 1
    /\ \E i, j \in 1..Len(log) :
          /\ i < j
          /\ log[i].op = "subnode_mut"
          /\ log[j].op = "subnode_mut"
          /\ log[i].path = log[j].path
          /\ StrLess(log[j].name, log[i].name)

\* C6: a set_prop or subnode_mut call that returns an error leaves the
\* properties and children of every node as they were.
C6_RejectedLeavesTree ==
    [][(call'.op \in {"set_prop", "subnode_mut"} /\ call'.ret # "Ok") => root' = root]_vars

\* C6 witness: set_prop was rejected for its string value on a node that holds
\* a property under the name given.
C6_Witness ==
    /\ call.op = "set_prop"
    /\ call.ret = "InvalidString"
    /\ call.name \in Keys(GetNode(root, call.path).props)

\* C6: each of the other rejections happens, on a tree that is not empty.
C6_InvalidPropNameReached ==
    call.op = "set_prop" /\ call.ret = "InvalidName" /\ Len(root.props) > 0

C6_TooLargeReached ==
    call.op = "set_prop" /\ call.ret = "PropertyValueTooLarge" /\ Len(root.props) > 0

C6_InvalidNodeNameReached ==
    call.op = "subnode_mut" /\ call.ret = "InvalidName" /\ Len(root.subnodes) > 0

\* C8: a successful subnode_mut(name) on a node that has no child of that name
\* adds one empty child of that name and changes nothing else of the node; on
\* a node that has one it changes nothing in the tree, so the child it returns
\* keeps its properties and children.
C8_FindOrCreate ==
    [][(call'.op = "subnode_mut" /\ call'.ret = "Ok") =>
          LET before == GetNode(root, call'.path)
              after  == GetNode(root', call'.path)
              n      == call'.name
          IN  IF n \in Keys(before.subnodes)
              THEN root' = root
              ELSE /\ Len(after.subnodes) = Len(before.subnodes) + 1
                   /\ Keys(after.subnodes) = Keys(before.subnodes) \cup {n}
                   /\ BTreeGet(after.subnodes, n) = [name |-> n, props |-> <<>>, subnodes |-> <<>>]
                   /\ \A k \in Keys(before.subnodes) :
                         BTreeGet(after.subnodes, k) = BTreeGet(before.subnodes, k)
                   /\ after.props = before.props
                   /\ after.name = before.name]_vars

\* C8 witness: subnode_mut returned a child that exists and holds a property.
C8_Witness ==
    /\ call.op = "subnode_mut"
    /\ call.ret = "Ok"
    /\ Len(GetNode(root, Append(call.path, call.name)).props) > 0

\* C9: after a successful set_prop(name, value) the node holds one property
\* under that name, with the converted value, and every other property, the
\* children and every other node are as before; a finished blob holds one
\* property record per node and name set.
C9_SetProp ==
    /\ [][(call'.op = "set_prop" /\ call'.ret = "Ok") =>
            LET before == GetNode(root, call'.path)
                after  == GetNode(root', call'.path)
                n      == call'.name
            IN  /\ Cardinality({i \in 1..Len(after.props) : after.props[i].key = n}) = 1
                /\ BTreeGet(after.props, n) = to_propval(call'.value).bytes
                /\ Keys(after.props) = Keys(before.props) \cup {n}
                /\ \A k \in Keys(before.props) \ {n} :
                      BTreeGet(after.props, k) = BTreeGet(before.props, k)
                /\ after.subnodes = before.subnodes
                /\ after.name = before.name
                /\ NodePaths(root') = NodePaths(root)
                /\ \A q \in NodePaths(root) :
                      q # call'.path => GetNode(root', q).props = GetNode(root, q).props]_vars
    /\ [](FinishedOk =>
            Len(PropRecords(blob)) =
                Cardinality({<<log[i].path, log[i].name>> :
                                i \in {j \in 1..Len(log) : log[j].op = "set_prop"}}))

\* C9 witness: a blob finished after a property was set twice, with two values.
C9_Witness ==
    /\ FinishedOk
    /\ \E i, j \in 1..Len(log) :
          /\ i < j
          /\ log[i].op = "set_prop"
          /\ log[j].op = "set_prop"
          /\ log[i].path = log[j].path
          /\ log[i].name = log[j].name
          /\ log[i].value # log[j].value


(* -------------------------------- C11 --------------------------------- *)

\* The characters the specification allows in a property name.
C11_PropChars ==
    (48..57) \cup (65..90) \cup (97..122) \cup {46, 44, 95, 43, 63, 35, 45}

\* The characters the specification allows in a node name.
C11_NodeChars ==
    (48..57) \cup (65..90) \cup (97..122) \cup {46, 44, 95, 43, 45, 64}

\* The number of '@' in name.
C11_Ats(name) == Cardinality({i \in 1..Len(name) : name[i] = 64})

\* C11: set_prop returns InvalidName exactly when the name has a character that
\* is neither ASCII alphanumeric nor one of . , _ + ? # - ; subnode_mut for a
\* name not yet present returns InvalidName exactly when the name has a
\* character that is neither ASCII alphanumeric nor one of . , _ + - @ , or
\* has more than one '@'; a name with an embedded NUL is rejected by both.
C11_InvalidName ==
    /\ call.op = "set_prop" =>
          /\ call.ret = "InvalidName"
                <=> \E i \in 1..Len(call.name) : call.name[i] \notin C11_PropChars
          /\ (\E i \in 1..Len(call.name) : call.name[i] = 0)
                => call.ret = "InvalidName"
    /\ call.op = "subnode_mut" =>
          /\ call.ret = "InvalidName"
                <=> \/ \E i \in 1..Len(call.name) : call.name[i] \notin C11_NodeChars
                    \/ C11_Ats(call.name) > 1
          /\ (\E i \in 1..Len(call.name) : call.name[i] = 0)
                => call.ret = "InvalidName"

\* subnode_mut rejected a name of allowed characters for its second '@'.
C11_Witness ==
    /\ call.op = "subnode_mut"
    /\ call.ret = "InvalidName"
    /\ call.name = <<64, 64>>

\* set_prop rejected '@' and subnode_mut rejected '?'.
C11_PropRejectsAt ==
    /\ call.op = "set_prop"
    /\ call.ret = "InvalidName"
    /\ call.name = <<97, 64>>

C11_NodeRejectsQuestionMark ==
    /\ call.op = "subnode_mut"
    /\ call.ret = "InvalidName"
    /\ call.name = <<63>>

\* set_prop accepted a name and rejected the value.
C11_ValidNameInvalidValue ==
    /\ call.op = "set_prop"
    /\ call.ret = "InvalidString"
    /\ call.name = <<35, 63>>


(* -------------------------------- C12 --------------------------------- *)

\* The value of the most recent set_boot_cpuid_phys call, 0 if there was none.
C12_LastCpuid ==
    IF cpuid_log = <<>> THEN [hi |-> 0, lo |-> 0] ELSE cpuid_log[Len(cpuid_log)]

\* The k-th 32-bit word of the blob (k from 1), as its four bytes.
C12_Word(k) == SubSeq(blob, 4 * k - 3, 4 * k)

\* C12: the first 40 bytes of every finish() output are ten big-endian 32-bit
\* words: magic 0xd00dfeed, total_size, off_dt_struct, off_dt_strings,
\* off_mem_rsvmap, version 17, last_comp_version 16, boot_cpuid_phys as given
\* by the most recent set_boot_cpuid_phys call (0 if there was none),
\* size_dt_strings, size_dt_struct.
C12_Header ==
    FinishedOk =>
        LET size_strings == Len(strings.strings)
            off_struct == 40 + 16 * (Len(reserved_memory) + 1)
            off_strings == Len(blob) - size_strings
        IN  /\ Len(blob) >= 40
            /\ C12_Word(1) = <<208, 13, 254, 237>>
            /\ C12_Word(2) = BeBytes(Len(blob), 4)
            /\ C12_Word(3) = BeBytes(off_struct, 4)
            /\ C12_Word(4) = BeBytes(off_strings, 4)
            /\ C12_Word(5) = BeBytes(40, 4)
            /\ C12_Word(6) = <<0, 0, 0, 17>>
            /\ C12_Word(7) = <<0, 0, 0, 16>>
            /\ C12_Word(8) = <<C12_LastCpuid.hi \div 256, C12_LastCpuid.hi % 256,
                               C12_LastCpuid.lo \div 256, C12_LastCpuid.lo % 256>>
            /\ C12_Word(9) = BeBytes(size_strings, 4)
            /\ C12_Word(10) = BeBytes(off_strings - off_struct, 4)

\* finish() after two set_boot_cpuid_phys calls with different values.
C12_Witness ==
    /\ FinishedOk
    /\ Len(cpuid_log) >= 2
    /\ cpuid_log[Len(cpuid_log)] # cpuid_log[Len(cpuid_log) - 1]
    /\ root.props # <<>>

\* finish() with set_boot_cpuid_phys never called.
C12_NeverSet == FinishedOk /\ cpuid_log = <<>> /\ root.props # <<>>


(* -------------------------------- C15 --------------------------------- *)

\* The name offsets of the property records of the blob, in record order.
C15_Offs == [i \in 1..Len(PropRecords(blob)) |-> PropRecords(blob)[i].nameoff]

\* bytes, zero-padded to a multiple of four.
C15_Pad(bytes) == bytes \o Zeros((4 - (Len(bytes) % 4)) % 4)

\* The records of the properties named keys[i..] of a node, appended to
\* st.out; st.k counts the records written so far.
RECURSIVE C15_Props(_, _, _, _)
C15_Props(props, keys, i, st) ==
    IF i > Len(keys) THEN st
    ELSE LET val == BTreeGet(props, keys[i])
             off == IF st.k < Len(C15_Offs) THEN C15_Offs[st.k + 1] ELSE 0
         IN  C15_Props(props, keys, i + 1,
                       [out |-> st.out \o <<0, 0, 0, 3>> \o BeBytes(Len(val), 4)
                                \o BeBytes(off, 4) \o C15_Pad(val),
                        k |-> st.k + 1])

\* The pre-order encoding of a node under `name`, appended to st.out.
RECURSIVE C15_Node(_, _, _)
RECURSIVE C15_Children(_, _, _, _)
C15_Children(subnodes, keys, i, st) ==
    IF i > Len(keys) THEN st
    ELSE C15_Children(subnodes, keys, i + 1,
                      C15_Node(BTreeGet(subnodes, keys[i]), keys[i], st))

C15_Node(node, name, st) ==
    LET begin == [out |-> st.out \o <<0, 0, 0, 1>> \o C15_Pad(name \o <<0>>), k |-> st.k]
        props == C15_Props(node.props, AscendingKeys(Keys(node.props)), 1, begin)
        children == C15_Children(node.subnodes, AscendingKeys(Keys(node.subnodes)), 1,
                                 props)
    IN  [out |-> children.out \o <<0, 0, 0, 2>>, k |-> children.k]

\* Begin markers less end markers among the first i tokens of a scan.
C15_Depth(toks, i) ==
    Cardinality({j \in 1..i : toks[j].tok = "begin"})
    - Cardinality({j \in 1..i : toks[j].tok = "end"})

\* C15: the structure block of every finish() output is the pre-order
\* encoding of the tree (begin marker 1, name and NUL padded to four bytes,
\* the property records in ascending key order, the children in ascending key
\* order, end marker 2) followed by exactly one FDT_END (9); begin and end
\* markers are balanced and nested, and no property record of a node follows
\* the begin marker of one of its children.
C15_StructureBlock ==
    FinishedOk =>
        LET block == SubSeq(blob, HdrOffDtStruct(blob) + 1, HdrOffDtStrings(blob))
            toks == ScanStruct(blob, HdrOffDtStruct(blob))
        IN  /\ block = C15_Node(root, <<>>, [out |-> <<>>, k |-> 0]).out \o <<0, 0, 0, 9>>
            /\ toks[Len(toks)].tok = "fdt_end"
            /\ \A i \in 1..(Len(toks) - 1) :
                  /\ toks[i].tok \in {"begin", "prop", "end"}
                  /\ C15_Depth(toks, i) >= (IF i = Len(toks) - 1 THEN 0 ELSE 1)
            /\ C15_Depth(toks, Len(toks) - 1) = 0
            /\ \A i \in 2..(Len(toks) - 1) :
                  toks[i].tok = "prop" => toks[i - 1].tok \in {"begin", "prop"}

\* A finished tree whose root has a property and two children, one with a
\* property of its own.
C15_Witness ==
    /\ FinishedOk
    /\ root.props # <<>>
    /\ root.subnodes # <<>>
    /\ \E i \in 1..Len(root.subnodes) : root.subnodes[i].val.props # <<>>

\* A finished tree with two properties on one node and one with two children.
C15_TwoProps == FinishedOk /\ \E p \in NodePaths(root) : Len(GetNode(root, p).props) >= 2

C15_TwoChildren == FinishedOk /\ Len(root.subnodes) >= 2 /\ root.props # <<>>


(* -------------------------------- C16 --------------------------------- *)

\* names[i..], each followed by one NUL, concatenated.
RECURSIVE C16_Concat(_, _)
C16_Concat(names, i) ==
    IF i > Len(names) THEN <<>> ELSE names[i] \o <<0>> \o C16_Concat(names, i + 1)

\* The byte offset at which the first entry equal to s starts in C16_Concat(names, 1).
C16_OffsetOf(names, s) ==
    LET at == CHOOSE i \in 1..Len(names) :
                  names[i] = s /\ \A j \in 1..(i - 1) : names[j] # s
    IN  Len(C16_Concat(SubSeq(names, 1, at - 1), 1))

\* The property names met by the traversal of a tree: a node's properties in
\* ascending key order, then its children in ascending key order.
RECURSIVE C16_Traversal(_)
RECURSIVE C16_TraverseChildren(_, _, _)
C16_TraverseChildren(subnodes, keys, i) ==
    IF i > Len(keys) THEN <<>>
    ELSE C16_Traversal(BTreeGet(subnodes, keys[i]))
         \o C16_TraverseChildren(subnodes, keys, i + 1)

C16_Traversal(node) ==
    AscendingKeys(Keys(node.props))
    \o C16_TraverseChildren(node.subnodes, AscendingKeys(Keys(node.subnodes)), 1)

\* keys[i..] without the members of `known` and without repetitions.
RECURSIVE C16_FirstNew(_, _, _)
C16_FirstNew(keys, i, known) ==
    IF i > Len(keys) THEN <<>>
    ELSE IF keys[i] \in known THEN C16_FirstNew(keys, i + 1, known)
    ELSE <<keys[i]>> \o C16_FirstNew(keys, i + 1, known \cup {keys[i]})

\* "a", "b" and "ab".
C16_Probes == {<<97>>, <<98>>, <<97, 98>>}

\* Interning s into the table as it stands: a known name, or a new one.
C16_Intern(s) ==
    LET names == SplitNul(strings.strings, 1, <<>>)
        r == intern_string(strings, s)
    IN  IF \E i \in 1..Len(names) : names[i] = s
        THEN /\ r.fs = strings
             /\ r.off = [hi |-> 0, lo |-> C16_OffsetOf(names, s)]
        ELSE /\ r.off = [hi |-> 0, lo |-> Len(strings.strings)]
             /\ r.fs.strings = strings.strings \o s \o <<0>>

\* C16: the strings block is the concatenation of the NUL-terminated names
\* in the order they were first interned: interning a new name returns the
\* length of the block before the append and appends the name and one NUL,
\* interning a known name returns its offset and appends nothing; each
\* finish() appends the names it meets for the first time in traversal order
\* and returns the block, so that after a first finish() the block lists the
\* names in the order of their first occurrence in the traversal.
C16_StringsBlock ==
    /\ [](\A s \in C16_Probes : C16_Intern(s))
    /\ [][call'.op = "finish" =>
            LET before == SplitNul(strings.strings, 1, <<>>)
                after == before \o C16_FirstNew(C16_Traversal(root), 1,
                                                {before[i] : i \in 1..Len(before)})
            IN  /\ strings.strings = C16_Concat(before, 1)
                /\ strings'.strings = C16_Concat(after, 1)
                /\ call'.ret = "Ok" => StringsBlock(blob') = C16_Concat(after, 1)]_vars
    /\ []((FinishedOk /\ nfinish = 1) =>
            StringsBlock(blob) = C16_Concat(C16_FirstNew(C16_Traversal(root), 1, {}), 1))

\* A first finish() whose strings block is not in ascending order.
C16_Witness ==
    /\ FinishedOk
    /\ nfinish = 1
    /\ LET names == SplitNul(StringsBlock(blob), 1, <<>>)
       IN  Len(names) >= 2 /\ StrLess(names[2], names[1])

\* A later finish() that found names interned and appended a new one.
C16_SecondFinishAppends ==
    /\ FinishedOk
    /\ nfinish = 2
    /\ ~repeated
    /\ StringsBlock(blob) # StringsBlock(FreshFinish.blob)


(* -------------------------------- C17 --------------------------------- *)

\* C17: in every successful finish() output, whatever set_prop, subnode_mut
\* and finish() calls came before, the name offset of each property record is
\* smaller than size_dt_strings and is the offset, in that output's strings
\* block, of the bytes of the property's name followed by a NUL.
C17_NameOffsets ==
    FinishedOk =>
        LET recs == PropRecords(blob)
            keys == C16_Traversal(root)
            sb == StringsBlock(blob)
        IN  /\ Len(recs) = Len(keys)
            /\ Len(sb) = HdrSizeDtStrings(blob)
            /\ \A i \in 1..Len(recs) :
                  LET off == recs[i].nameoff
                      n == Len(keys[i])
                  IN  /\ off < HdrSizeDtStrings(blob)
                      /\ off + n + 1 <= Len(sb)
                      /\ SubSeq(sb, off + 1, off + n) = keys[i]
                      /\ sb[off + n + 1] = 0

\* A finish() after an earlier finish() and a set_prop between them, whose
\* first record points behind the name of its second record.
C17_Witness ==
    /\ FinishedOk
    /\ nfinish = 2
    /\ ~repeated
    /\ call.ret = "Ok"
    /\ StringsBlock(blob) # StringsBlock(FreshFinish.blob)
    /\ LET recs == PropRecords(blob)
       IN  Len(recs) >= 2 /\ recs[1].nameoff > recs[2].nameoff


(* -------------------------------- C13 --------------------------------- *)

\* A usize rounded up to a multiple of four.
C13_Pad4(n) == UsizeAdd(n, Usize((4 - (n.r % 4)) % 4))

\* The bytes of the encoding of a node: begin marker, padded name, a record
\* of 12 bytes and the padded value per property, the children, end marker.
RECURSIVE C13_StructLen(_)
RECURSIVE C13_PropsLen(_, _)
RECURSIVE C13_ChildrenLen(_, _)
C13_PropsLen(props, i) ==
    IF i > Len(props) THEN Usize(0)
    ELSE UsizeAdd(UsizeAdd(Usize(12), C13_Pad4(VecLen(props[i].val))),
                  C13_PropsLen(props, i + 1))

C13_ChildrenLen(subnodes, i) ==
    IF i > Len(subnodes) THEN Usize(0)
    ELSE UsizeAdd(C13_StructLen(subnodes[i].val), C13_ChildrenLen(subnodes, i + 1))

C13_StructLen(node) ==
    UsizeAdd(UsizeAdd(Usize(4 + 4 * ((Len(node.name) + 1 + 3) \div 4)),
                      C13_PropsLen(node.props, 1)),
             UsizeAdd(C13_ChildrenLen(node.subnodes, 1), Usize(4)))

\* The offsets and sizes of the blob that finish() assembles from the state.
C13_OffStruct == Usize(40 + 16 * (Len(reserved_memory) + 1))

C13_SizeStruct == UsizeAdd(C13_StructLen(root), Usize(4))

C13_OffStrings == UsizeAdd(C13_OffStruct, C13_SizeStruct)

C13_SizeStrings == Usize(Len(strings.strings))

C13_TotalSize == UsizeAdd(C13_OffStrings, C13_SizeStrings)

\* The four big-endian bytes of a usize below 2^32.
C13_Be(n) ==
    <<(n.q * 64) + (n.r \div (256 * 256 * 256)), (n.r \div (256 * 256)) % 256,
      (n.r \div 256) % 256, n.r % 256>>

\* C13: finish() fails, with TotalSizeTooLarge, exactly when the length of
\* the assembled blob is 2^32 or more, and whenever it succeeds the offsets
\* and sizes in the header are the untruncated values of the assembled blob.
C13_TotalSizeTooLarge ==
    call.op = "finish" =>
        /\ call.ret \in {"Ok", "TotalSizeTooLarge"}
        /\ call.ret = "TotalSizeTooLarge" <=> C13_TotalSize.q >= 4
        /\ call.ret = "Ok" =>
              /\ VecLen(blob) = C13_TotalSize
              /\ C12_Word(2) = C13_Be(C13_TotalSize)
              /\ C12_Word(3) = C13_Be(C13_OffStruct)
              /\ C12_Word(4) = C13_Be(C13_OffStrings)
              /\ C12_Word(5) = C13_Be(Usize(40))
              /\ C12_Word(9) = C13_Be(C13_SizeStrings)
              /\ C12_Word(10) = C13_Be(C13_SizeStruct)

\* finish() failed on a blob of exactly 2^32 bytes whose strings block would
\* start below 2^32.
C13_Witness ==
    /\ call.op = "finish"
    /\ call.ret = "TotalSizeTooLarge"
    /\ C13_TotalSize = [q |-> 4, r |-> 0]
    /\ C13_OffStrings.q < 4

\* finish() succeeded on a blob two bytes short of 2^32 bytes.
C13_LargestBlob ==
    /\ FinishedOk
    /\ C13_TotalSize = [q |-> 3, r |-> UNIT - 2]

\* finish() failed on a blob of more than 2^32 bytes of properties that fit.
C13_TwoLongValues ==
    /\ call.op = "finish"
    /\ call.ret = "TotalSizeTooLarge"
    /\ Len(root.props) = 2
    /\ \A i \in 1..2 : VecLen(root.props[i].val) = [q |-> 2, r |-> 0]


(* -------------------------------- C14 --------------------------------- *)

\* The byte length of the longest value set_prop may store: 2^32 - 1.
C14_Fits(n) == n.q < 4

\* Every property stored in the node and below it has a length of 32 bits.
RECURSIVE C14_StoredFit(_)
C14_StoredFit(node) ==
    /\ \A i \in 1..Len(node.props) : C14_Fits(VecLen(node.props[i].val))
    /\ \A i \in 1..Len(node.subnodes) : C14_StoredFit(node.subnodes[i].val)

\* The values of the properties of a tree in the order of their records.
RECURSIVE C14_Values(_)
RECURSIVE C14_ValuesOfSubnodes(_, _)
C14_ValuesOfSubnodes(subnodes, i) ==
    IF i > Len(subnodes) THEN <<>>
    ELSE C14_Values(subnodes[i].val) \o C14_ValuesOfSubnodes(subnodes, i + 1)

C14_Values(node) ==
    [i \in 1..Len(node.props) |-> node.props[i].val]
    \o C14_ValuesOfSubnodes(node.subnodes, 1)

\* The positions in the blob (counted in items, from 1) of the property
\* markers, found by stepping over names and over the stored values.
RECURSIVE C14_RecordsAt(_, _, _)
C14_RecordsAt(pos, vals, i) ==
    IF pos + 3 > Len(blob) THEN <<>>
    ELSE LET t == SubSeq(blob, pos, pos + 3)
         IN  CASE t = <<0, 0, 0, 1>> ->
                    LET n == CStrLen(blob, pos + 3)
                    IN  C14_RecordsAt(pos + 4 + Align4(n + 1), vals, i)
               [] t = <<0, 0, 0, 2>> -> C14_RecordsAt(pos + 4, vals, i)
               [] t = <<0, 0, 0, 3>> /\ i <= Len(vals) ->
                    <<pos>> \o C14_RecordsAt(
                                  pos + 12 + Len(vals[i])
                                  + ((4 - (VecLen(vals[i]).r % 4)) % 4), vals, i + 1)
               [] OTHER -> <<>>

\* C14: set_prop returns PropertyValueTooLarge, and stores nothing, whenever
\* the value it converts (the name being valid, which is checked before the
\* conversion) is longer than 2^32 - 1 bytes; so every stored
\* property has a length of 32 bits, and in every finish() output the length
\* word of each property record is the byte length of the value.
C14_ValueTooLarge ==
    /\ [][(/\ call'.op = "set_prop"
           /\ \A i \in 1..Len(call'.name) : call'.name[i] \in C11_PropChars
           /\ to_propval(call'.value).ok
           /\ ~C14_Fits(VecLen(to_propval(call'.value).bytes)))
          => (call'.ret = "PropertyValueTooLarge" /\ root' = root)]_vars
    /\ [](C14_StoredFit(root))
    /\ [](FinishedOk =>
            LET vals == C14_Values(root)
                at == C14_RecordsAt(HdrOffDtStruct(blob) + 1, vals, 1)
            IN  /\ Len(at) = Len(vals)
                /\ \A i \in 1..Len(vals) :
                      /\ SubSeq(blob, at[i] + 4, at[i] + 7) = C13_Be(VecLen(vals[i]))
                      /\ SubSeq(blob, at[i] + 12, at[i] + 11 + Len(vals[i])) = vals[i])

\* set_prop rejected a value of 2^32 bytes.
C14_Witness ==
    /\ call.op = "set_prop"
    /\ call.ret = "PropertyValueTooLarge"
    /\ VecLen(to_propval(call.value).bytes) = [q |-> 4, r |-> 0]

\* A finished blob with a property of 2^31 bytes and a property after it.
C14_LongRecord ==
    /\ FinishedOk
    /\ LET vals == C14_Values(root)
       IN  Len(vals) = 2 /\ VecLen(vals[1]) = [q |-> 2, r |-> 0]

\* A stored property of 2^32 - 4 bytes.
C14_LongestStored ==
    \E i \in 1..Len(root.props) : VecLen(root.props[i].val) = [q |-> 3, r |-> UNIT - 4]

(* -------------------------------- C18 --------------------------------- *)

\* C18: a finish() call, whether it returns the blob or an error, leaves the
\* node tree, the reserved-memory list and boot_cpuid_phys as they were.
C18_FinishFrame ==
    [][call'.op = "finish" =>
          /\ root' = root
          /\ reserved_memory' = reserved_memory
          /\ boot_cpuid_phys' = boot_cpuid_phys]_vars

\* A finish() that failed on an Fdt with properties, reserved memory and a
\* boot CPU id, and changed the string table.
C18_Witness ==
    /\ call.op = "finish"
    /\ call.ret = "TotalSizeTooLarge"
    /\ root.props # <<>>
    /\ reserved_memory # <<>>
    /\ boot_cpuid_phys # [hi |-> 0, lo |-> 0]
    /\ strings # FdtStringsDefault

\* A finish() that succeeded on such an Fdt.
C18_SucceededReached ==
    /\ FinishedOk
    /\ root.props # <<>>
    /\ reserved_memory # <<>>
    /\ boot_cpuid_phys # [hi |-> 0, lo |-> 0]

====
